---- MODULE Spec2Model ----
(***************************************************************************)
(* A model of the Unit entity of warriorjs-core (src/packages/warriorjs-   *)
(* core/src/Unit.js): its vitals and combat operations and its two-phase   *)
(* turn protocol (prepareTurn / performTurn).                              *)
(*                                                                         *)
(* The Unit objects live in one heap w, a function from Units to the       *)
(* record of a unit's fields (w[u].health, w[u].position, ...), so that a  *)
(* method which calls other methods (damage -> takeDamage -> unbind,       *)
(* vanish; performTurn -> passTurn -> takeDamage ...) is the composition   *)
(* of operators on w, in the order of the statements of the source.  A     *)
(* JavaScript null is the empty tuple.                                     *)
(***************************************************************************)
EXTENDS Integers, Sequences, FiniteSets, TLC

VARIABLES
  unit,   \* the Unit objects: unit[u] is the record of the fields of unit u
  phase,  \* the round scheduler: "setup", "free", "prepare" or "perform"
  todo,   \* the units the scheduler has still to call in this phase
  snap,   \* history: the units as they were when the current round began
  last,   \* history: the last call, its arguments and what it did
  pending \* history: what became of each unit's pending turn

vars == <<unit, phase, todo, snap, last, pending>>

---------------------------------------------------------------------------
(* Bounds of the model. *)

\* the largest maxHealth a unit is created with
MaxHP == 2
\* no call is followed that would lift a score above MaxScore
MaxScore == 2

\* the explicit rewards a unit is created with
Rewards == {0, 1}

\* the cells of the floor
Cells == {1, 2}

Units == {"a", "b"}

\* a JavaScript null
NULL == <<>>

\* the amounts heal, takeDamage and damage are called with: none, part of the
\* health, all of it, more than all of it
Amounts == 0 .. (MaxHP + 1)

SignedAmounts == (0 - (MaxHP + 1)) .. (MaxHP + 1)

---------------------------------------------------------------------------
(* The methods of Unit, as operators on the heap w of unit records. *)

\* a slip: the default taken with reward || maxHealth, which also replaces an
\* explicit 0
constructorRewardOrMaxHealth(mh, rw, cap) ==
  [ maxHealth |-> mh,
    reward    |-> IF rw = NULL \/ rw[1] = 0 THEN mh ELSE rw[1],
    captive   |-> cap,
    abilities |-> {},
    effects   |-> <<>>,
    health    |-> mh,
    position  |-> NULL,
    bound     |-> cap,
    score     |-> 0,
    turn      |-> NULL ]

\* constructor(name, character, maxHealth, reward = null, captive = false)
constructor(mh, rw, cap) ==
  [ maxHealth |-> mh,
    reward    |-> IF rw = NULL THEN mh ELSE rw[1],
    captive   |-> cap,
    abilities |-> {},
    effects   |-> <<>>,
    health    |-> mh,
    position  |-> NULL,
    bound     |-> cap,
    score     |-> 0,
    turn      |-> NULL ]

\* a slip: the captive flag taken for the bound flag
isCaptiveAsBound(w, u) == w[u].bound

isCaptive(w, u) == w[u].captive

isAlive(w, u) == w[u].position # NULL

isBound(w, u) == w[u].bound

unbind(w, u) == [w EXCEPT ![u].bound = FALSE]

bind(w, u) == [w EXCEPT ![u].bound = TRUE]

earnPoints(w, u, points) == [w EXCEPT ![u].score = @ + points]

vanish(w, u) == [w EXCEPT ![u].position = NULL]

\* a slip: heal without the clamp at maxHealth
healUnclamped(w, u, amount) == [w EXCEPT ![u].health = @ + amount]

\* a slip: a heal that lifts the health above 0 puts the unit back on the floor
healRevives(w, u, amount) ==
  LET revisedAmount ==
        IF w[u].health + amount > w[u].maxHealth
        THEN w[u].maxHealth - w[u].health
        ELSE amount
      w1 == [w EXCEPT ![u].health = @ + revisedAmount]
  IN IF w1[u].health > 0 /\ w1[u].position = NULL
     THEN [w1 EXCEPT ![u].position = <<1>>]
     ELSE w1

heal(w, u, amount) ==
  LET revisedAmount ==
        IF w[u].health + amount > w[u].maxHealth
        THEN w[u].maxHealth - w[u].health
        ELSE amount
  IN [w EXCEPT ![u].health = @ + revisedAmount]

\* a slip: the death test reads the health from before the subtraction, so
\* the unit vanishes one call late
takeDamageDeathDeferred(w, u, amount) ==
  LET w1 == IF isBound(w, u) THEN unbind(w, u) ELSE w
      revisedAmount ==
        IF w1[u].health - amount < 0 THEN w1[u].health ELSE amount
      w2 == [w1 EXCEPT ![u].health = @ - revisedAmount]
  IN IF w1[u].health = 0 THEN vanish(w2, u) ELSE w2

\* a slip: only a damage that hurts breaks the bonds
takeDamageBondsHoldAtZero(w, u, amount) ==
  LET w1 == IF isBound(w, u) /\ amount > 0 THEN unbind(w, u) ELSE w
      revisedAmount ==
        IF w1[u].health - amount < 0 THEN w1[u].health ELSE amount
      w2 == [w1 EXCEPT ![u].health = @ - revisedAmount]
  IN IF w2[u].health = 0 THEN vanish(w2, u) ELSE w2

\* a slip: takeDamage without the clamp at 0
takeDamageUnclamped(w, u, amount) ==
  LET w1 == IF isBound(w, u) THEN unbind(w, u) ELSE w
      w2 == [w1 EXCEPT ![u].health = @ - amount]
  IN IF w2[u].health = 0 THEN vanish(w2, u) ELSE w2

takeDamage(w, u, amount) ==
  LET w1 == IF isBound(w, u) THEN unbind(w, u) ELSE w
      revisedAmount ==
        IF w1[u].health - amount < 0 THEN w1[u].health ELSE amount
      w2 == [w1 EXCEPT ![u].health = @ - revisedAmount]
  IN IF w2[u].health = 0 THEN vanish(w2, u) ELSE w2

\* a slip: the points go to the unit that was hit
damageRewardsReceiver(w, u, receiver, amount) ==
  LET w1 == takeDamage(w, receiver, amount)
  IN IF ~isAlive(w1, receiver)
     THEN earnPoints(w1, receiver, w1[receiver].reward)
     ELSE w1

damage(w, u, receiver, amount) ==
  LET w1 == takeDamage(w, receiver, amount)
  IN IF ~isAlive(w1, receiver)
     THEN earnPoints(w1, u, w1[receiver].reward)
     ELSE w1

\* addAbility(name, ability): Map.set
addAbility(w, u, name) == [w EXCEPT ![u].abilities = @ \cup {name}]

\* addEffect(name, effect): Map.set keeps the place of a key it already holds
addEffect(w, u, name) ==
  IF \E i \in 1 .. Len(w[u].effects) : w[u].effects[i] = name
  THEN w
  ELSE [w EXCEPT ![u].effects = Append(@, name)]

\* move(direction, forward, right): this.position.move(...) throws on a null
\* position; otherwise the spatial model gives the unit its next cell
move(w, u) ==
  IF w[u].position = NULL
  THEN [w |-> w, error |-> TRUE]
  ELSE [w |-> [w EXCEPT ![u].position = <<(@[1] % Cardinality(Cells)) + 1>>],
        error |-> FALSE]

---------------------------------------------------------------------------
(* The collaborators of Unit: effects, abilities, Turn and the control     *)
(* hook.                                                                   *)

EffectNames == {"ticking", "shackle"}

AbilityNames == {"attack", "walk"}

\* the actions a control hook can commit: [name, args]
Actions(u) == {<<"walk", <<>>>>} \cup {<<"attack", <<t>>>> : t \in Units \ {u}}

\* the registry the level gives a unit: both can attack, only "a" can walk
Registry(u) == IF u = "a" THEN {"attack", "walk"} ELSE {"attack"}

\* effect.passTurn(): a ticking effect hurts its unit, a shackle binds it
passTurn(w, u, name) ==
  IF name = "ticking" THEN takeDamage(w, u, 1) ELSE bind(w, u)

\* ability.perform(...args): walk moves the unit; attack looks the target up
\* on the floor (a spatial query, which throws when the unit has no position;
\* a unit that has vanished is not found) and damages it
perform(w, u, action) ==
  IF action[1] = "walk" THEN move(w, u)
  ELSE IF ~isAlive(w, u) THEN [w |-> w, error |-> TRUE]
  ELSE IF isAlive(w, action[2][1])
       THEN [w |-> damage(w, u, action[2][1], 1), error |-> FALSE]
       ELSE [w |-> w, error |-> FALSE]

\* what the sense abilities of a Turn can show the control hook of the units
\* (position, health, bound), and the units' scores
sense(w) ==
  [v \in Units |->
     [position |-> w[v].position, health |-> w[v].health,
      bound |-> w[v].bound, score |-> w[v].score]]

\* playTurn(turn): the control hook; the Turn captures the action it commits
playTurn(w, u, choice) == [w EXCEPT ![u].turn = <<choice>>]

---------------------------------------------------------------------------
(* The turn protocol. *)

\* getNextTurn(): a fresh Turn, no action captured
getNextTurn(w, u) == <<NULL>>

\* a slip: the action the hook commits is performed at once, not captured
prepareTurnEager(w, u, choice) ==
  LET w1 == playTurn([w EXCEPT ![u].turn = getNextTurn(w, u)], u, choice)
  IN IF choice = NULL THEN w1 ELSE perform(w1, u, choice).w

\* a slip: the Turn is made once and kept, so a hook that commits nothing
\* leaves the action of the turn before
prepareTurnKeepsAction(w, u, choice) ==
  IF choice = NULL /\ w[u].turn # NULL
  THEN w
  ELSE playTurn([w EXCEPT ![u].turn = getNextTurn(w, u)], u, choice)

prepareTurn(w, u, choice) ==
  playTurn([w EXCEPT ![u].turn = getNextTurn(w, u)], u, choice)

RECURSIVE passTurns(_, _, _)
\* this.effects.forEach(effect => effect.passTurn())
passTurns(w, u, names) ==
  IF names = <<>> THEN w
  ELSE passTurns(passTurn(w, u, Head(names)), u, Tail(names))

\* the outcome of a performTurn: the heap it leaves, the effects it ticked,
\* the heap at the time of its action step, the action it performed and
\* whether it threw
Outcome(w, ticked) ==
  [w |-> w, ticked |-> ticked, mid |-> w, performed |-> NULL, error |-> FALSE]

\* a slip: the action step does not look at the bound flag
actionStepIgnoringBonds(w, u, ticked) ==
  IF w[u].turn = NULL THEN [Outcome(w, ticked) EXCEPT !.error = TRUE]
  ELSE IF w[u].turn[1] # NULL
  THEN IF w[u].turn[1][1] \notin w[u].abilities
       THEN [Outcome(w, ticked) EXCEPT !.error = TRUE]
       ELSE [Outcome(w, ticked) EXCEPT
               !.w = perform(w, u, w[u].turn[1]).w,
               !.performed = w[u].turn[1],
               !.error = perform(w, u, w[u].turn[1]).error]
  ELSE Outcome(w, ticked)

\* a slip: an action whose ability the registry does not hold is passed over
actionStepUnknownAbilitySkipped(w, u, ticked) ==
  IF w[u].turn = NULL THEN [Outcome(w, ticked) EXCEPT !.error = TRUE]
  ELSE IF w[u].turn[1] # NULL /\ ~isBound(w, u)
          /\ w[u].turn[1][1] \in w[u].abilities
  THEN [Outcome(w, ticked) EXCEPT
          !.w = perform(w, u, w[u].turn[1]).w,
          !.performed = w[u].turn[1],
          !.error = perform(w, u, w[u].turn[1]).error]
  ELSE Outcome(w, ticked)

\* if (this.turn.action && !this.isBound()) {
\*   const [name, args] = this.turn.action;
\*   this.abilities.get(name).perform(...args); }
\* reading .action of a null turn throws, and so does calling .perform of an
\* ability the registry does not hold
actionStep(w, u, ticked) ==
  IF w[u].turn = NULL THEN [Outcome(w, ticked) EXCEPT !.error = TRUE]
  ELSE IF w[u].turn[1] # NULL /\ ~isBound(w, u)
  THEN IF w[u].turn[1][1] \notin w[u].abilities
       THEN [Outcome(w, ticked) EXCEPT !.error = TRUE]
       ELSE [Outcome(w, ticked) EXCEPT
               !.w = perform(w, u, w[u].turn[1]).w,
               !.performed = w[u].turn[1],
               !.error = perform(w, u, w[u].turn[1]).error]
  ELSE Outcome(w, ticked)

\* a slip: the bound flag is read before the effects tick
performTurnBoundBeforeTicks(w, u) ==
  IF ~isAlive(w, u) THEN Outcome(w, <<>>)
  ELSE IF isBound(w, u) /\ w[u].turn # NULL
  THEN Outcome(passTurns(w, u, w[u].effects), w[u].effects)
  ELSE actionStepIgnoringBonds(passTurns(w, u, w[u].effects), u, w[u].effects)

\* a slip: the action is performed first, the effects tick after it
performTurnActionFirst(w, u) ==
  IF isAlive(w, u)
  THEN LET r == actionStep(w, u, w[u].effects)
       IN [r EXCEPT !.w = passTurns(r.w, u, w[u].effects)]
  ELSE Outcome(w, <<>>)

\* a slip: the missing turn is found before the effects tick
performTurnChecksTheTurnFirst(w, u) ==
  IF ~isAlive(w, u) THEN Outcome(w, <<>>)
  ELSE IF w[u].turn = NULL THEN [Outcome(w, <<>>) EXCEPT !.error = TRUE]
  ELSE actionStep(passTurns(w, u, w[u].effects), u, w[u].effects)

\* a slip: performTurn without the isAlive guard
performTurnUnguarded(w, u) ==
  actionStep(passTurns(w, u, w[u].effects), u, w[u].effects)

performTurn(w, u) ==
  IF isAlive(w, u)
  THEN actionStep(passTurns(w, u, w[u].effects), u, w[u].effects)
  ELSE Outcome(w, <<>>)

---------------------------------------------------------------------------
(* The state machine: the level's setup, then calls of the methods, made   *)
(* in any order by a free caller or in rounds by the round scheduler.      *)
(* Unit "a" is a warrior (not captive, default reward, every ability); it  *)
(* is the unit whose turns the free caller drives.  Unit "b" is the other  *)
(* unit of the level, created with any arguments.                          *)

\* the arguments a unit is created with
RewardArgs == {NULL} \cup {<<r>> : r \in Rewards}

Warrior == constructor(MaxHP, NULL, FALSE)

Created ==
  {constructor(mh, rw, cap) : mh \in 0 .. MaxHP, rw \in RewardArgs,
                              cap \in BOOLEAN}

\* the units of a level after construction and addAbility
Level(others) ==
  {addAbility(addAbility(addAbility(w, "a", "attack"), "a", "walk"),
              "b", "attack") :
     w \in {v \in [Units -> Created \cup {Warrior}] :
              v["a"] = Warrior /\ v["b"] \in others}}

\* where the floor puts a unit
Home(u) == IF u = "a" THEN 1 ELSE Cardinality(Cells)

\* a method other than performTurn returns normally
Returns(w) == Outcome(w, <<>>)

\* the model follows no call that takes a score or a health out of its bounds
InBounds(w) ==
  \A v \in Units :
    /\ w[v].score <= MaxScore
    /\ w[v].health >= 0 - (MaxHP + 1)
    /\ w[v].health <= MaxHP + MaxHP + 1

\* the call op(u, ...) on or against unit t, with result r, is made: the heap
\* changes, and the history records the call, what t was before it and what a
\* performTurn did
Call(op, u, t, amount, r) ==
  /\ InBounds(r.w)
  /\ unit' = r.w
  /\ last' = [op |-> op, unit |-> u, target |-> t, amount |-> amount,
              was |-> [alive |-> isAlive(unit, t), bound |-> isBound(unit, t),
                       health |-> unit[t].health],
              ticked |-> r.ticked, performed |-> r.performed,
              midAlive |-> isAlive(r.mid, u), midBound |-> isBound(r.mid, u),
              error |-> r.error]

NoCall ==
  [op |-> "new", unit |-> "a", target |-> "a", amount |-> 0,
   was |-> [alive |-> FALSE, bound |-> FALSE, health |-> 0],
   ticked |-> <<>>, performed |-> NULL, midAlive |-> FALSE,
   midBound |-> FALSE, error |-> FALSE]

InitWith(others) ==
  /\ unit \in Level(others)
  /\ phase = "setup"
  /\ todo = {}
  /\ snap = NULL
  /\ last = NoCall
  /\ pending = [u \in Units |-> NULL]

AddEffect(u, name) ==
  /\ phase = "setup"
  /\ Call("addEffect", u, u, 0, Returns(addEffect(unit, u, name)))
  /\ UNCHANGED <<phase, todo, snap, pending>>

\* the floor gives a unit its position when the level is built
Place(u) ==
  /\ phase = "setup"
  /\ unit[u].position = NULL
  /\ Call("place", u, u, 0, Returns([unit EXCEPT ![u].position = <<Home(u)>>]))
  /\ UNCHANGED <<phase, todo, snap, pending>>

\* the level is built: methods are now called in any order
StartFree ==
  /\ phase = "setup"
  /\ phase' = "free"
  /\ UNCHANGED <<unit, todo, snap, last, pending>>

\* the level is built: the scheduler begins the first round
StartRounds ==
  /\ phase = "setup"
  /\ phase' = "prepare"
  /\ todo' = Units
  /\ snap' = sense(unit)
  /\ UNCHANGED <<unit, last, pending>>

HealCall(u, amount) ==
  /\ phase = "free"
  /\ Call("heal", u, u, amount, Returns(heal(unit, u, amount)))
  /\ UNCHANGED <<phase, todo, snap, pending>>

TakeDamageCall(u, amount) ==
  /\ phase = "free"
  /\ Call("takeDamage", u, u, amount, Returns(takeDamage(unit, u, amount)))
  /\ UNCHANGED <<phase, todo, snap, pending>>

DamageCall(u, receiver, amount) ==
  /\ phase = "free"
  /\ Call("damage", u, receiver, amount,
          Returns(damage(unit, u, receiver, amount)))
  /\ UNCHANGED <<phase, todo, snap, pending>>

BindCall(u) ==
  /\ phase = "free"
  /\ Call("bind", u, u, 0, Returns(bind(unit, u)))
  /\ UNCHANGED <<phase, todo, snap, pending>>

UnbindCall(u) ==
  /\ phase = "free"
  /\ Call("unbind", u, u, 0, Returns(unbind(unit, u)))
  /\ UNCHANGED <<phase, todo, snap, pending>>

\* the history of a turn just prepared: the action the control hook committed,
\* whether the unit was bound at that time, whether the turn it replaces (p)
\* held an action that no performTurn had gone through, and that no
\* performTurn has yet gone through this one
Prepared(w, u, choice, p) ==
  <<[committed |-> choice, bound |-> isBound(w, u),
     stale |-> (p # NULL /\ p[1].committed # NULL /\ ~p[1].spent),
     spent |-> FALSE]>>

\* the history of a pending turn after a performTurn: on a living unit the
\* call has gone through the turn
Performed(w, u, p) ==
  IF p # NULL /\ isAlive(w, u) THEN <<[p[1] EXCEPT !.spent = TRUE]>> ELSE p

\* the scheduler's bookkeeping after it has called u: when every unit has
\* prepared, every unit performs; when every unit has performed, the next
\* round begins
Scheduled(u) ==
  IF phase = "free" THEN UNCHANGED <<phase, todo, snap>>
  ELSE /\ todo' = IF todo = {u} THEN Units ELSE todo \ {u}
       /\ phase' = IF todo = {u}
                   THEN (IF phase = "prepare" THEN "perform" ELSE "prepare")
                   ELSE phase
       /\ snap' = IF todo = {u} /\ phase = "perform" THEN sense(unit')
                  ELSE snap

PrepareTurnCall(u, choice) ==
  /\ (phase = "free" /\ u = "a") \/ (phase = "prepare" /\ u \in todo)
  /\ Call("prepareTurn", u, u, 0, Returns(prepareTurn(unit, u, choice)))
  /\ Scheduled(u)
  /\ UNCHANGED pending

PerformTurnCall(u) ==
  /\ phase = "free" \/ (phase = "perform" /\ u \in todo)
  /\ Call("performTurn", u, u, 0, performTurn(unit, u))
  /\ Scheduled(u)
  /\ UNCHANGED pending

\* the same two calls, with the history of the pending turns kept
PrepareTurnTracked(u, choice) ==
  /\ (phase = "free" /\ u = "a") \/ (phase = "prepare" /\ u \in todo)
  /\ Call("prepareTurn", u, u, 0, Returns(prepareTurn(unit, u, choice)))
  /\ Scheduled(u)
  /\ pending' = [pending EXCEPT ![u] = Prepared(unit, u, choice, @)]

PerformTurnTracked(u) ==
  /\ phase = "free" \/ (phase = "perform" /\ u \in todo)
  /\ Call("performTurn", u, u, 0, performTurn(unit, u))
  /\ Scheduled(u)
  /\ pending' = [pending EXCEPT ![u] = Performed(unit, u, @)]

\* every method, on a level whose unit "b" has some health and the default
\* reward; heal and takeDamage are called with one point at a time
Init == InitWith({c \in Created : c.maxHealth > 0 /\ c.reward = c.maxHealth})

Point == {1}

Next ==
  \/ \E name \in EffectNames : AddEffect("a", name)
  \/ \E u \in Units : Place(u)
  \/ StartFree
  \/ StartRounds
  \/ \E u \in Units, amount \in Point : HealCall(u, amount)
  \/ \E u \in Units, amount \in Point : TakeDamageCall(u, amount)
  \/ \E u \in Units : BindCall(u)
  \/ \E u \in Units : UnbindCall(u)
  \/ \E u \in Units : \E choice \in {NULL} \cup Actions(u) :
       PrepareTurnCall(u, choice)
  \/ \E u \in Units : PerformTurnCall(u)

Spec == Init /\ [][Next]_vars

\* the vitals and combat methods, on a level whose unit "b" is created with
\* any arguments
InitCombat == InitWith(Created)

NextCombat ==
  \/ \E u \in Units : Place(u)
  \/ StartFree
  \/ \E u \in Units, amount \in Amounts : HealCall(u, amount)
  \/ \E u \in Units, amount \in Amounts : TakeDamageCall(u, amount)
  \/ \E u \in Units, amount \in Amounts : \E receiver \in Units \ {u} :
       DamageCall(u, receiver, amount)
  \/ \E u \in Units : BindCall(u)
  \/ \E u \in Units : UnbindCall(u)

SpecCombat == InitCombat /\ [][NextCombat]_vars

\* heal and takeDamage with amounts of either sign
NextAnyAmount ==
  \/ \E u \in Units : Place(u)
  \/ StartFree
  \/ \E u \in Units, amount \in SignedAmounts : HealCall(u, amount)
  \/ \E u \in Units, amount \in SignedAmounts : TakeDamageCall(u, amount)

SpecAnyAmount == Init /\ [][NextAnyAmount]_vars

\* the turn protocol, with the history of the pending turns: the calls that
\* bind and unbind a unit and the two calls of a turn, free or in rounds
NextTurns ==
  \/ \E name \in EffectNames : AddEffect("a", name)
  \/ \E u \in Units : Place(u)
  \/ StartFree
  \/ StartRounds
  \/ \E u \in Units : BindCall(u)
  \/ \E u \in Units : UnbindCall(u)
  \/ \E u \in Units : \E choice \in {NULL} \cup Actions(u) :
       PrepareTurnTracked(u, choice)
  \/ \E u \in Units : PerformTurnTracked(u)

SpecTurns == Init /\ [][NextTurns]_vars

---------------------------------------------------------------------------
(* The claims. *)

InRange(w, u) == 0 <= w[u].health /\ w[u].health <= w[u].maxHealth

\* C1 as stated: after every heal and takeDamage call, with any amounts, every
\* unit's health is within [0, maxHealth].
C1_HealthInRangeForAnyAmounts == \A u \in Units : InRange(unit, u)

\* C1 as amended: a heal or takeDamage call with a non-negative amount on a
\* unit whose health is within [0, maxHealth] leaves it within [0, maxHealth].
C1_NonNegativeAmountsKeepHealthInRange ==
  (/\ last.op \in {"heal", "takeDamage"}
   /\ last.amount >= 0
   /\ 0 <= last.was.health
   /\ last.was.health <= unit[last.unit].maxHealth)
    => InRange(unit, last.unit)

\* an over-heal has been clamped at maxHealth
C1_Witness ==
  /\ last.op = "heal"
  /\ last.was.health >= 0
  /\ last.was.health + last.amount > unit[last.unit].maxHealth
  /\ unit[last.unit].health = unit[last.unit].maxHealth

\* C2: a damage call lifts the attacker's score by the receiver's reward if
\* and only if it turns the receiver from alive to not alive; in every other
\* case it leaves the attacker's score as it was.
C2_RewardIffTheCallKills ==
  [][last'.op = "damage" =>
       unit'[last'.unit].score =
         IF isAlive(unit, last'.target) /\ ~isAlive(unit', last'.target)
         THEN unit[last'.unit].score + unit[last'.target].reward
         ELSE unit[last'.unit].score]_vars

\* C3: while the units of a round prepare, and until the first of them
\* performs, the units are as they were when the round began: no prepareTurn
\* has changed a position, a health, a bound flag or a score, so every control
\* hook senses the state from before the round's action phase.
C3_PrepareSeesRoundStart ==
  (phase = "prepare" \/ (phase = "perform" /\ todo = Units))
    => sense(unit) = snap

\* in a later round (the warrior has walked), a unit has prepared with an
\* action captured while the other has still to prepare
C3_Witness ==
  /\ phase = "prepare"
  /\ todo = {"b"}
  /\ last.op = "prepareTurn"
  /\ unit["a"].turn[1] # NULL
  /\ unit["a"].position # <<Home("a")>>
  /\ sense(unit) = snap

\* C4: a performTurn on a unit that is alive and, at the time of the action
\* step, bound has ticked every effect of the unit and performed no ability.
C4_BoundUnitTicksButDoesNotAct ==
  (last.op = "performTurn" /\ last.was.alive /\ last.midBound)
    => /\ last.ticked = unit[last.unit].effects
       /\ last.performed = NULL

\* a bound unit with two effects and a captured action has performed its turn
C4_Witness ==
  /\ last.op = "performTurn"
  /\ last.was.alive
  /\ last.midAlive
  /\ last.midBound
  /\ Len(last.ticked) = 2
  /\ unit[last.unit].turn # NULL
  /\ unit[last.unit].turn[1] # NULL
  /\ last.performed = NULL

\* C5: a performTurn on a unit that is not alive ticks no effect, performs no
\* ability, does not throw and changes nothing.
C5_DeadUnitDoesNothing ==
  [][(last'.op = "performTurn" /\ ~isAlive(unit, last'.unit)) =>
       /\ unit' = unit
       /\ last'.ticked = <<>>
       /\ last'.performed = NULL
       /\ ~last'.error]_vars

\* a dead unit with effects and a captured action has been told to perform
C5_Witness ==
  /\ last.op = "performTurn"
  /\ ~last.was.alive
  /\ unit[last.unit].effects # <<>>
  /\ unit[last.unit].turn # NULL
  /\ unit[last.unit].turn[1] # NULL
  /\ last.ticked = <<>>

\* C6: no ability of a unit is performed when the unit is not alive, also when
\* it died in the effect ticks of this very performTurn.
C6_NoAbilityOfADeadUnit ==
  (last.op = "performTurn" /\ last.performed # NULL) => last.midAlive

C8_DamageBreaksBonds ==
  last.op \in {"takeDamage", "damage"} => ~isBound(unit, last.target)

\* a bound unit has taken 0 damage
C8_Witness ==
  /\ last.op = "takeDamage"
  /\ last.amount = 0
  /\ last.was.bound
  /\ ~isBound(unit, last.unit)

\* C9: performTurn, heal, takeDamage and damage on or against a unit with no
\* position throw nothing and leave the unit's health, bound and position and
\* every unit's score as they were.
C9_CallsOnADeadUnitAreNoOps ==
  [][(/\ last'.op \in {"performTurn", "heal", "takeDamage", "damage"}
      /\ ~isAlive(unit, last'.target))
       => /\ unit'[last'.target].health = unit[last'.target].health
          /\ unit'[last'.target].bound = unit[last'.target].bound
          /\ unit'[last'.target].position = unit[last'.target].position
          /\ \A v \in Units : unit'[v].score = unit[v].score
          /\ ~last'.error]_vars

\* C10: a unit starts bound exactly if it was created captive; no call changes
\* what isCaptive reports, so an unbound captive is still a captive and a
\* bound non-captive is not one; and unbind leaves the unit unbound.
C10_CaptiveIsFixed ==
  /\ \A u \in Units : isBound(unit, u) = isCaptive(unit, u)
  /\ [][\A u \in Units : isCaptive(unit', u) = isCaptive(unit, u)]_vars
  /\ [](last.op = "unbind" => ~isBound(unit, last.unit))

\* a captive has been unbound and is still a captive
C10_Witness ==
  /\ last.op = "unbind"
  /\ last.was.bound
  /\ isCaptive(unit, last.unit)
  /\ ~isBound(unit, last.unit)

\* C11: each captured action is performed at most once: a performTurn performs
\* an ability only if no earlier performTurn has gone through the same pending
\* turn, be it one that performed the action or one that skipped it because
\* the unit was bound.
C11_ActionPerformedAtMostOnce ==
  [][(last'.op = "performTurn" /\ last'.performed # NULL)
       => /\ pending[last'.unit] # NULL
          /\ ~pending[last'.unit][1].spent]_vars

\* C12: a performTurn on a living unit whose pending turn holds an action of a
\* registered ability performs it exactly if the unit is not bound once its
\* effects have ticked, whatever the bound flag was when the turn was prepared
\* or when the performTurn began.
C12_BoundIsReadAfterTheTicks ==
  (/\ last.op = "performTurn"
   /\ last.was.alive
   /\ unit[last.unit].turn # NULL
   /\ unit[last.unit].turn[1] # NULL
   /\ unit[last.unit].turn[1][1] \in unit[last.unit].abilities)
    => (last.performed # NULL) = ~last.midBound

\* a unit that was bound when it prepared, and was freed by the attack of
\* another unit before its own performTurn, has performed its action
C12_Witness ==
  /\ last.op = "performTurn"
  /\ pending[last.unit] # NULL
  /\ pending[last.unit][1].bound
  /\ ~last.was.bound
  /\ last.ticked = <<>>
  /\ unit[last.unit].health < unit[last.unit].maxHealth
  /\ last.performed # NULL

\* C18: when the control hook committed no action in the latest prepareTurn of
\* a unit, the following performTurn performs no ability.
C18_NoActionCommittedNoneReplayed ==
  (/\ last.op = "performTurn"
   /\ pending[last.unit] # NULL
   /\ pending[last.unit][1].committed = NULL)
    => last.performed = NULL

\* a living, unbound unit has performed a turn in which the hook committed
\* nothing, prepared over a turn whose captured action was never performed
C18_Witness ==
  /\ last.op = "performTurn"
  /\ last.was.alive
  /\ last.midAlive
  /\ ~last.midBound
  /\ pending[last.unit] # NULL
  /\ pending[last.unit][1].committed = NULL
  /\ pending[last.unit][1].stale
  /\ ~last.error
  /\ last.performed = NULL

\* what one tick of each effect, in the order of the sequence names, makes of
\* a unit's bound flag: a shackle binds, a ticking effect hurts and so unbinds,
\* and the last effect decides
BoundAfter(names, bound) ==
  IF names = <<>> THEN bound ELSE names[Len(names)] = "shackle"

\* the health of a unit after one tick of each of the effects names
HealthAfter(names, health) ==
  IF \E i \in 1 .. Len(names) : names[i] = "ticking"
  THEN (IF health - 1 < 0 THEN 0 ELSE health - 1)
  ELSE health

\* C13: a performTurn on a living unit ticks every effect of the unit exactly
\* once, in the order the effects were added, and all the ticks come before
\* the action: at the time of the action step the unit's bound flag and health
\* are what one tick of each effect in that order leaves, and an ability is
\* performed only if the unit is then unbound; bound or not, action or not.
C13_EffectsTickOnceInOrderBeforeTheAction ==
  [][(last'.op = "performTurn" /\ isAlive(unit, last'.unit)) =>
       /\ last'.ticked = unit[last'.unit].effects
       /\ last'.midBound =
            BoundAfter(unit[last'.unit].effects, unit[last'.unit].bound)
       /\ unit'[last'.unit].health =
            HealthAfter(unit[last'.unit].effects, unit[last'.unit].health)
       /\ last'.performed # NULL => ~last'.midBound]_vars

\* a unit with a shackle added first and a ticking effect added second has
\* performed a turn: both ticked, the ticking one last, so the unit was hurt
\* and unbound and its action was performed
C13_Witness ==
  /\ last.op = "performTurn"
  /\ last.was.alive
  /\ last.ticked = <<"shackle", "ticking">>
  /\ unit[last.unit].health = last.was.health - 1
  /\ ~last.midBound
  /\ last.midAlive
  /\ last.performed # NULL

\* C14: no step lowers a score, and a step changes a unit's score only when
\* the unit itself damages another (here through its attack ability), in
\* which case the score rises by the reward of the unit it hit; heal,
\* takeDamage, bind, unbind, prepareTurn and the effect ticks of performTurn
\* leave every score as it was.
C14_ScoreChangesOnlyByOwnDamage ==
  [][\A v \in Units :
       \/ unit'[v].score = unit[v].score
       \/ /\ last'.op = "performTurn"
          /\ last'.unit = v
          /\ last'.performed # NULL
          /\ last'.performed[1] = "attack"
          /\ unit[last'.performed[2][1]].reward >= 0
          /\ unit'[v].score =
               unit[v].score + unit[last'.performed[2][1]].reward]_vars

\* a unit has killed another with its attack and holds the other's reward
C14_Witness ==
  /\ last.op = "performTurn"
  /\ last.performed # NULL
  /\ last.performed[1] = "attack"
  /\ ~isAlive(unit, last.performed[2][1])
  /\ unit[last.performed[2][1]].reward > 0
  /\ unit[last.unit].score = unit[last.performed[2][1]].reward

\* C15: with an amount >= 0, heal leaves min(maxHealth, health + amount) and
\* takeDamage, direct or through damage, leaves max(0, health - amount), where
\* health is the unit's health before the call: nothing else, so no excess
\* clamped away by an earlier call, enters the result.
C15_HealIsMinTakeDamageIsMax ==
  /\ (last.op = "heal" /\ last.amount >= 0) =>
       unit[last.target].health =
         IF last.was.health + last.amount > unit[last.target].maxHealth
         THEN unit[last.target].maxHealth
         ELSE last.was.health + last.amount
  /\ (last.op \in {"takeDamage", "damage"} /\ last.amount >= 0) =>
       unit[last.target].health =
         IF last.was.health - last.amount < 0
         THEN 0
         ELSE last.was.health - last.amount

\* a unit whose health takeDamage had brought to 0 has been healed by 1, and
\* has health 1
C15_Witness ==
  /\ last.op = "heal"
  /\ last.amount = 1
  /\ last.was.health = 0
  /\ unit[last.unit].maxHealth > 1
  /\ unit[last.unit].health = 1

\* C16: a performTurn on a living unit that is unbound at the action step and
\* whose pending turn holds an action of an ability its registry does not hold
\* ends in an error, and performs nothing.
C16_UnregisteredAbilityIsAnError ==
  (/\ last.op = "performTurn"
   /\ last.was.alive
   /\ ~last.midBound
   /\ unit[last.unit].turn # NULL
   /\ unit[last.unit].turn[1] # NULL
   /\ unit[last.unit].turn[1][1] \notin unit[last.unit].abilities)
    => (last.error /\ last.performed = NULL)

\* the unit that cannot walk has performed a turn that told it to walk
C16_Witness ==
  /\ last.op = "performTurn"
  /\ last.was.alive
  /\ last.midAlive
  /\ ~last.midBound
  /\ unit[last.unit].turn = <<(<<"walk", <<>>>>)>>
  /\ "walk" \notin unit[last.unit].abilities
  /\ last.error

\* C17: the constructor gives a unit the reward maxHealth when the reward
\* argument is null and the given reward otherwise, an explicit 0 included; no
\* call changes a reward; and a damage call that kills lifts the attacker's
\* score by exactly the receiver's reward.
C17_RewardDefaultsToMaxHealth ==
  /\ \A mh \in 0 .. MaxHP, rw \in RewardArgs, cap \in BOOLEAN :
       constructor(mh, rw, cap).reward = IF rw = NULL THEN mh ELSE rw[1]
  /\ [][\A u \in Units : unit'[u].reward = unit[u].reward]_vars
  /\ [][(/\ last'.op = "damage"
         /\ isAlive(unit, last'.target)
         /\ ~isAlive(unit', last'.target))
          => unit'[last'.unit].score =
               unit[last'.unit].score + unit[last'.target].reward]_vars

\* a damage call has killed a unit whose reward is its maxHealth, and the
\* attacker's score is that maxHealth
C17_Witness ==
  /\ last.op = "damage"
  /\ last.was.alive
  /\ ~isAlive(unit, last.target)
  /\ unit[last.target].maxHealth > 1
  /\ unit[last.target].reward = unit[last.target].maxHealth
  /\ unit[last.unit].score = unit[last.target].maxHealth

\* C19: a performTurn on a unit that has never prepared a turn: if the unit is
\* alive the call throws, after every effect has ticked once, and the health
\* and the bound flag the ticks left stay; if the unit is not alive the call
\* does nothing and does not throw.
C19_PerformTurnWithoutATurn ==
  [][(last'.op = "performTurn" /\ unit[last'.unit].turn = NULL) =>
       IF isAlive(unit, last'.unit)
       THEN /\ last'.error
            /\ last'.performed = NULL
            /\ last'.ticked = unit[last'.unit].effects
            /\ unit'[last'.unit].bound =
                 BoundAfter(unit[last'.unit].effects, unit[last'.unit].bound)
            /\ unit'[last'.unit].health =
                 HealthAfter(unit[last'.unit].effects, unit[last'.unit].health)
       ELSE /\ ~last'.error
            /\ last'.ticked = <<>>
            /\ unit' = unit]_vars

\* a living unit with a ticking effect and no turn has been told to perform:
\* the call threw, and the unit has lost the health of the tick
C19_Witness ==
  /\ last.op = "performTurn"
  /\ last.was.alive
  /\ unit[last.unit].turn = NULL
  /\ last.ticked # <<>>
  /\ unit[last.unit].health < last.was.health
  /\ last.error

\* C20: no call of heal, takeDamage, damage, bind, unbind, prepareTurn or
\* performTurn gives a position to a unit that has none, and heal changes
\* nothing but the health of the unit it is called on.
C20_NoCallRevives ==
  [][/\ (last'.op \in {"heal", "takeDamage", "damage", "bind", "unbind",
                        "prepareTurn", "performTurn"})
          => \A v \in Units : ~isAlive(unit, v) => ~isAlive(unit', v)
     /\ (last'.op = "heal")
          => unit' = [unit EXCEPT
                        ![last'.unit].health = unit'[last'.unit].health]]_vars

\* a unit that vanished at health 0 has been healed: it has health and no
\* position
C20_Witness ==
  /\ last.op = "heal"
  /\ ~last.was.alive
  /\ last.was.health = 0
  /\ unit[last.unit].health > 0
  /\ ~isAlive(unit, last.unit)

====
